---- MODULE Spec2Model ----
(***************************************************************************)
(* Key-backup trust and import (crypto/keybackup.go) and the libolm pickle  *)
(* layout of the ratchet chain types (crypto/goolm/ratchet).                *)
(*                                                                          *)
(* Spec        the key-backup pipeline: GetAndVerifyLatestKeyBackupVersion, *)
(*             DownloadAndStoreLatestKeyBackup, GetAndStoreKeyBackup and    *)
(*             ImportRoomKeyFromBackup, one top-level call per behaviour.   *)
(* SpecPickle  PickleLibOlm / UnpickleLibOlm of the chain and key types on  *)
(*             byte buffers.                                                *)
(* SpecChain   construction and advancement of sender and receiver chains.  *)
(* SpecCancel  the hicli JSON command "cancel" (hicli/hicli.go).             *)
(* SpecSync    concurrent HiClient.Sync and HiClient.Stop calls; SpecSyncFair *)
(*             adds the scheduler's fairness.                                *)
(***************************************************************************)
EXTENDS Integers, Sequences, FiniteSets, TLC

VARIABLES
    pc,          \* position of the running top-level call
    op,          \* which top-level call runs: verify | download | store | import
    key,         \* the megolmBackupKey argument (Nil when the caller passes nil)
    verifyIn,    \* collaborator answers seen by GetAndVerifyLatestKeyBackupVersion
    verifyOut,   \* what GetAndVerifyLatestKeyBackupVersion returned (or that it panicked)
    calls,       \* collaborator calls made so far, in order
    ret,         \* what the top-level call returned
    version,     \* the backup version GetAndStoreKeyBackup restores
    keys,        \* entries of the fetched backup payload, numbered in visiting order
    attempts,    \* per entry: how many times the loop body ran for it
    outcome,     \* per visited entry: decrypt_failed | import_failed | imported
    count,       \* GetAndStoreKeyBackup's count
    failedCount, \* GetAndStoreKeyBackup's failedCount
    store,       \* CryptoStore: the persisted inbound group sessions
    signals,     \* markSessionReceived emissions, in order
    cancelled,   \* ctx has been cancelled
    atCancel,    \* snapshot taken when ctx was cancelled
    importIn,    \* arguments and collaborator answers of the last ImportRoomKeyFromBackup
    importOut,   \* what the last ImportRoomKeyFromBackup returned
    pk,          \* state of the pickle run (SpecPickle)
    ratchetChains, \* a ratchet's sender and receiver chain (SpecChain)
    jsonRequests,  \* h.jsonRequests: the request IDs that have a cancel function
    cancelInvoked, \* the cancel functions invoked so far, with their cause
    jsonResult,    \* the outcome of the last "cancel" command
    syncer,        \* per Sync call: its position and its locals
    stopper,       \* the Stop call: its position and its local fn
    syncLock,      \* h.syncLock: the call that holds it (Nil: free)
    syncingID,     \* h.syncingID
    stopSync,      \* h.stopSync: the context it cancels (Nil: nil)
    cancelledCtx,  \* the sync contexts that have been cancelled
    clientSyncingID, \* h.Client's syncing ID
    db             \* h.DB: open or closed, and what ran when it was closed

vars == <<pc, op, key, verifyIn, verifyOut, calls, ret, version, keys, attempts, outcome,
          count, failedCount, store, signals, cancelled, atCancel, importIn,
          importOut, pk, ratchetChains, jsonRequests, cancelInvoked, jsonResult,
          syncer, stopper, syncLock, syncingID, stopSync, cancelledCtx,
          clientSyncingID, db>>

jsonVars == <<jsonRequests, cancelInvoked, jsonResult>>

syncVars == <<syncer, stopper, syncLock, syncingID, stopSync, cancelledCtx,
              clientSyncingID, db>>

hicliVars == <<jsonVars, syncVars>>

backupVars == <<pc, op, key, verifyIn, verifyOut, calls, ret, version, keys, attempts,
                outcome, count, failedCount, store, signals, cancelled, atCancel,
                importIn, importOut>>

----------------------------------------------------------------------------
(* Bounds *)

\* Largest number of (room, session) entries in a fetched backup payload.
MaxEntries == 2

\* Longest byte slice handed to an UnpickleLibOlm.
MaxInputLen == 100

\* Most advances of one chain.
MaxAdvances == 3

\* Most JSON requests in flight (request IDs 1..MaxRequests).
MaxRequests == 4

\* Most HiClient.Sync calls issued on one client.
MaxSyncCalls == 2

----------------------------------------------------------------------------
(* Values *)

Nil == "nil"

\* id.KeyBackupAlgorithmMegolmBackupV1 and another algorithm a server may report.
KeyBackupAlgorithmMegolmBackupV1 == "m.megolm_backup.v1.curve25519-aes-sha2"
BackupAlgorithms == {KeyBackupAlgorithmMegolmBackupV1, "org.example.other_backup"}

\* id.AlgorithmMegolmV1 and another algorithm a session may declare.
AlgorithmMegolmV1 == "m.megolm.v1.aes-sha2"
SessionAlgorithms == {AlgorithmMegolmV1, "m.olm.v1.curve25519-aes-sha2"}

KeyAlgorithmEd25519 == "ed25519"

\* Private recovery keys a caller may hold, and the public key each derives.
BackupKeys == {"k1", "k2"}
PublicKeyOf == [k \in BackupKeys |-> IF k = "k1" THEN "P1" ELSE "P2"]
\* auth_data.public_key values a server may report.
AuthPublicKeys == {"P1"}

\* The version the server reports as latest.
LatestVersion == "v7"

\* Own cross-signing master keys the store may have cached (Nil: not cached).
MasterKeys == {"MK", "MK2"}
\* Device IDs a signature's key name may resolve to.
DeviceNames == {"DEVA", "MK"}
\* Signing key of the own device DEVA.
DevASigningKey == "skA"

\* Key IDs (algorithm, name) that may carry a signature under the own user ID.
KeyIDs == { <<"ed25519", "MK">>, <<"ed25519", "DEVA">>, <<"curve25519", "DEVA">> }

\* A signature is modelled by the key it verifies under ("bad": under none).
SigValues(kid) ==
    IF kid = <<"ed25519", "MK">> THEN {"MK", "bad"}
    ELSE IF kid = <<"ed25519", "DEVA">> THEN {DevASigningKey, "bad"}
    ELSE {DevASigningKey}

SigMaps == UNION { [D -> {"MK", DevASigningKey, "bad"}] : D \in SUBSET KeyIDs }

UserSignatures ==
    { m \in SigMaps : \A kid \in DOMAIN m : m[kid] \in SigValues(kid) }

\* What CryptoStore.GetDevice answers for a device ID.
DeviceAnswers ==
    { [status |-> "err",   SigningKey |-> Nil, trusted |-> FALSE],
      [status |-> "nil",   SigningKey |-> Nil, trusted |-> FALSE],
      [status |-> "found", SigningKey |-> DevASigningKey, trusted |-> FALSE],
      [status |-> "found", SigningKey |-> DevASigningKey, trusted |-> TRUE] }

NoDevice == [status |-> "nil", SigningKey |-> Nil, trusted |-> FALSE]

EmptySigs == [kid \in {} |-> "bad"]

\* auth_data.signatures[own user ID]: absent, or a map from key ID to signature.
UserSigChoices ==
    { [has |-> FALSE, map |-> EmptySigs] }
    \cup { [has |-> TRUE, map |-> m] : m \in UserSignatures }

NoEnv ==
    [fetch |-> "none", algorithm |-> Nil, authPublicKey |-> Nil,
     hasUserSigs |-> FALSE, sigs |-> EmptySigs, crossSigning |-> Nil,
     device |-> [d \in DeviceNames |-> NoDevice]]

\* The answers of the network client and of the device/trust store to one run
\* of GetAndVerifyLatestKeyBackupVersion.
Envs ==
    { [NoEnv EXCEPT !.fetch = "err"] }
    \cup
    { [fetch |-> "ok", algorithm |-> a, authPublicKey |-> p,
       hasUserSigs |-> us.has, sigs |-> us.map, crossSigning |-> c,
       device |-> [d \in DeviceNames |-> IF d = "DEVA" THEN da ELSE NoDevice]] :
         a \in BackupAlgorithms, p \in AuthPublicKeys, us \in UserSigChoices,
         c \in MasterKeys \cup {Nil}, da \in DeviceAnswers }

RECURSIVE Perms(_)
\* Every order in which a Go map range may visit the set S.
Perms(S) ==
    IF S = {} THEN { <<>> }
    ELSE UNION { { <<x>> \o p : p \in Perms(S \ {x}) } : x \in S }

Call(fn, arg) == [fn |-> fn, arg |-> arg]

----------------------------------------------------------------------------
(* GetAndVerifyLatestKeyBackupVersion *)

\* signatures.VerifySignatureJSON(authData, userID, keyName, key): whether the
\* signature stored under ed25519:keyName verifies under key.
VerifySignatureJSON(sigs, keyName, k) ==
    /\ <<KeyAlgorithmEd25519, keyName>> \in DOMAIN sigs
    /\ sigs[<<KeyAlgorithmEd25519, keyName>>] = k

\* A slip in the comparison of line 58: the private key itself is compared.
RecoveryKeyTrusted_ComparesPrivateKey(k, env) ==
    k # Nil /\ env.authPublicKey = k

\* Line 58: the recovery-key comparison.
RecoveryKeyTrusted(k, env) ==
    k # Nil /\ env.authPublicKey = PublicKeyOf[k]

RECURSIVE SignatureLoop_AbortsOnIneligibleSignature(_, _, _)
\* A slip in lines 92-105: a signature of an unknown or untrusted device, or
\* one that fails verification, ends the loop instead of being skipped.
SignatureLoop_AbortsOnIneligibleSignature(env, order, log) ==
    IF order = <<>> THEN [res |-> "none", calls |-> log]
    ELSE
      LET keyID   == Head(order)
          keyAlg  == keyID[1]
          keyName == keyID[2]
          rest    == Tail(order)
          Check(k, l) ==
              LET l2 == Append(l, Call("VerifySignatureJSON", keyName))
              IN  IF VerifySignatureJSON(env.sigs, keyName, k)
                  THEN [res |-> "verified", calls |-> l2]
                  ELSE [res |-> "none", calls |-> l2]
      IN
      IF keyAlg # KeyAlgorithmEd25519
        THEN SignatureLoop_AbortsOnIneligibleSignature(env, rest, log)
      ELSE IF keyName = env.crossSigning THEN Check(env.crossSigning, log)
      ELSE
        LET device == env.device[keyName]
            l1     == Append(log, Call("GetDevice", keyName))
        IN
        IF device.status = "err" THEN [res |-> "store_err", calls |-> l1]
        ELSE IF device.status = "nil" THEN [res |-> "none", calls |-> l1]
        ELSE
          LET l2 == Append(l1, Call("IsDeviceTrusted", keyName))
          IN  IF ~device.trusted THEN [res |-> "none", calls |-> l2]
              ELSE Check(device.SigningKey, l2)

RECURSIVE SignatureLoop(_, _, _)
\* Lines 79-112: the range over userSignatures, visiting the key IDs in `order`.
\* res: "verified" (break at line 110), "none" (loop ran out), "store_err"
\* (return at line 91).
SignatureLoop(env, order, log) ==
    IF order = <<>> THEN [res |-> "none", calls |-> log]
    ELSE
      LET keyID   == Head(order)
          keyAlg  == keyID[1]
          keyName == keyID[2]
          rest    == Tail(order)
          Check(k, l) ==
              LET l2 == Append(l, Call("VerifySignatureJSON", keyName))
              IN  IF VerifySignatureJSON(env.sigs, keyName, k)
                  THEN [res |-> "verified", calls |-> l2]
                  ELSE SignatureLoop(env, rest, l2)
      IN
      IF keyAlg # KeyAlgorithmEd25519 THEN SignatureLoop(env, rest, log)
      ELSE IF keyName = env.crossSigning THEN Check(env.crossSigning, log)
      ELSE
        LET device == env.device[keyName]
            l1     == Append(log, Call("GetDevice", keyName))
        IN
        IF device.status = "err" THEN [res |-> "store_err", calls |-> l1]
        ELSE IF device.status = "nil" THEN SignatureLoop(env, rest, l1)
        ELSE
          LET l2 == Append(l1, Call("IsDeviceTrusted", keyName))
          IN  IF ~device.trusted THEN SignatureLoop(env, rest, l2)
              ELSE Check(device.SigningKey, l2)

VerifyResult(res, err, info, log) ==
    [res |-> res, err |-> err, info |-> info, calls |-> log]

\* Lines 36-118. res: "ok" (versionInfo, nil), "err" (nil, error) or "panic"
\* (the nil dereference of megolmBackupKey.PublicKey() at line 57).
GetAndVerifyLatestKeyBackupVersion(k, env, order) ==
    LET l0 == << Call("GetKeyBackupLatestVersion", Nil) >>
    IN
    IF env.fetch # "ok" THEN VerifyResult("err", "fetch", Nil, l0)
    ELSE IF env.algorithm # KeyBackupAlgorithmMegolmBackupV1
      THEN VerifyResult("err", "unsupported_algorithm", Nil, l0)
    ELSE IF k = Nil THEN VerifyResult("panic", "nil_dereference", Nil, l0)
    ELSE IF RecoveryKeyTrusted(k, env)
      THEN VerifyResult("ok", Nil, LatestVersion, l0)
    ELSE IF ~env.hasUserSigs
      THEN VerifyResult("err", "no_signature", Nil, l0)
    ELSE
      LET l1 == Append(l0, Call("GetOwnCrossSigningPublicKeys", Nil))
      IN
      IF env.crossSigning = Nil
        THEN VerifyResult("err", "cross_signing_not_cached", Nil, l1)
      ELSE
        LET r == SignatureLoop(env, order, l1)
        IN  IF r.res = "store_err"
              THEN VerifyResult("err", "get_device", Nil, r.calls)
            ELSE IF r.res = "none"
              THEN VerifyResult("err", "no_valid_signature", Nil, r.calls)
            ELSE VerifyResult("ok", Nil, LatestVersion, r.calls)

NoVerifyOut == [res |-> "none", err |-> Nil, info |-> Nil]

----------------------------------------------------------------------------
(* int64 arithmetic: a value is its eight bytes, least significant first, in  *)
(* two's complement                                                           *)

\* The int64 of a natural number below 2^31.
Int64(n) ==
    [i \in 1..8 |-> IF i <= 4 THEN (n \div (256 ^ (i - 1))) % 256 ELSE 0]

Int64Negative(x) == x[8] >= 128

RECURSIVE AddBytes(_, _, _, _)
AddBytes(x, y, i, carry) ==
    IF i > 8 THEN <<>>
    ELSE LET t == x[i] + y[i] + carry
         IN  << t % 256 >> \o AddBytes(x, y, i + 1, t \div 256)

\* x + y, wrapping
Int64Add(x, y) == AddBytes(x, y, 1, 0)

RECURSIVE MulBytes(_, _, _, _)
MulBytes(x, m, i, carry) ==
    IF i > 8 THEN <<>>
    ELSE LET t == x[i] * m + carry
         IN  << t % 256 >> \o MulBytes(x, m, i + 1, t \div 256)

\* x * m, wrapping, for a factor 0 < m <= 10^6
Int64Mul(x, m) == MulBytes(x, m, 1, 0)

\* -x, wrapping
Int64Neg(x) == AddBytes([i \in 1..8 |-> 255 - x[i]], Int64(1), 1, 0)

RECURSIVE DivBytes(_, _, _, _)
\* Long division of the unsigned bytes i..1 of x by d, with remainder rem of
\* the bytes above.
DivBytes(x, d, i, rem) ==
    IF i < 1 THEN <<>>
    ELSE LET t == rem * 256 + x[i]
         IN  Append(DivBytes(x, d, i - 1, t % d), t \div d)

\* x / d as Go divides: truncated towards zero, for a divisor 0 < d <= 10^6
Int64Quo(x, d) ==
    IF Int64Negative(x) THEN Int64Neg(DivBytes(Int64Neg(x), d, 8, 0))
    ELSE DivBytes(x, d, 8, 0)

\* time.Millisecond, in nanoseconds
Millisecond == 1000000

\* time.Duration(ms) * time.Millisecond
DurationOfMillis(ms) == Int64Mul(ms, Millisecond)

\* time.Duration.Milliseconds(): int64(d) / 1e6
Duration_Milliseconds(d) == Int64Quo(d, 1000000)

\* Rotation periods a room's encryption event may carry: a week, -1, the
\* largest number of milliseconds whose nanoseconds fit an int64
\* (9223372036854), and the next one.
WeekMillis == Int64(604800000)
LargestExactMillis ==
    Int64Add(Int64Mul(Int64(9223372), 1000000), Int64(36854))
RotationPeriods ==
    { WeekMillis, Int64Neg(Int64(1)), LargestExactMillis,
      Int64Add(LargestExactMillis, Int64(1)) }

----------------------------------------------------------------------------
(* ImportRoomKeyFromBackup *)

\* The (room, session) key of the i-th entry the range visits.
EntryRoom == << "!r1", "!r1", "!r2", "!r2" >>
EntrySession == << "s1", "s2", "s3", "s4" >>
\* A session ID no entry claims.
OtherSession == "sX"

SenderKey == "senderCurve25519"
ClaimedEd25519 == "senderEd25519"

\* Exported session keys: unparseable, or carrying the session ID the ratchet
\* reports and its first known index.
SessionKeys(sid, firsts) ==
    { [valid |-> FALSE, id |-> Nil, firstIndex |-> 0],
      [valid |-> TRUE,  id |-> OtherSession, firstIndex |-> 0] }
    \cup { [valid |-> TRUE, id |-> sid, firstIndex |-> f] : f \in firsts }

ForwardingChains == { <<>>, << "fwdA" >>, << "fwdA", "fwdB" >> }

\* backup.MegolmSessionData
SessionDatas(sid, firsts, chains) ==
    { [Algorithm |-> a, SessionKey |-> sk, SenderKey |-> SenderKey,
       SigningKey |-> ClaimedEd25519, ForwardingKeyChain |-> f] :
         a \in SessionAlgorithms, sk \in SessionKeys(sid, firsts), f \in chains }

NoEncryptionEvent ==
    [status |-> "nil", RotationPeriodMillis |-> Int64(0),
     RotationPeriodMessages |-> 0]

\* What StateStore.GetEncryptionEvent answers: an error, no event, or an event
\* with one of the given rotation periods.
EncAnswers(periods) ==
    { [NoEncryptionEvent EXCEPT !.status = "err"], NoEncryptionEvent }
    \cup { [status |-> "found", RotationPeriodMillis |-> ms,
            RotationPeriodMessages |-> 100] : ms \in periods }

\* Lines 176-183: maxAge (a time.Duration) and maxMessages after the lookup.
RotationConfig(enc) ==
    IF enc.status = "found"
      THEN [maxAge |-> DurationOfMillis(enc.RotationPeriodMillis),
            maxMessages |-> enc.RotationPeriodMessages]
      ELSE [maxAge |-> Int64(0), maxMessages |-> 0]

\* olm.InboundGroupSessionImport: the ratchet built from the session key, or an error.
InboundGroupSessionImport(sk) ==
    [err |-> ~sk.valid, ID |-> sk.id, FirstKnownIndex |-> sk.firstIndex]

\* A slip in line 169: the claimed session ID is not compared.
SessionIDMatches_Unchecked(igsInternal, sessionID) == TRUE

\* Line 169: igsInternal.ID() against the claimed session ID.
SessionIDMatches(igsInternal, sessionID) == igsInternal.ID = sessionID

NoSession ==
    [id |-> Nil, RoomID |-> Nil, SenderKey |-> Nil, SigningKey |-> Nil,
     ForwardingChains |-> <<>>, MaxAge |-> Int64(0), MaxMessages |-> 0,
     KeyBackupVersion |-> Nil, FirstKnownIndex |-> 0]

ImportResult(err, igs, log, persisted, sig) ==
    [err |-> err, igs |-> igs, calls |-> log, persisted |-> persisted,
     signal |-> sig]

\* A slip in line 162: every algorithm is accepted.
AlgorithmSupported_Any(data) == TRUE

\* Line 162: the session data's algorithm against megolm-v1.
AlgorithmSupported(data) == data.Algorithm = AlgorithmMegolmV1

\* A slip in line 195: the sender key is put in front of the claimed chain.
ForwardingChainsOf_SenderFirst(data) ==
    << data.SenderKey >> \o data.ForwardingKeyChain

\* Line 195: append(keyBackupData.ForwardingKeyChain, SenderKey.String())
ForwardingChainsOf(data) == Append(data.ForwardingKeyChain, data.SenderKey)

\* A slip in lines 203-207: the session-received signal is emitted before the
\* result of PutGroupSession is looked at.
PersistAndSignal_SignalsFirst(igs, firstKnownIndex, log, putOK) ==
    LET l1 == Append(log, Call("markSessionReceived", igs.id))
        l2 == Append(l1, Call("PutGroupSession", igs.id))
        sig == << <<igs.RoomID, igs.id, firstKnownIndex>> >>
    IN  IF ~putOK THEN ImportResult("store_failed", NoSession, l2, FALSE, sig)
        ELSE ImportResult(Nil, igs, l2, TRUE, sig)

\* Lines 203-208: PutGroupSession, its error check, markSessionReceived.
PersistAndSignal(igs, firstKnownIndex, log, putOK) ==
    LET l1 == Append(log, Call("PutGroupSession", igs.id))
    IN  IF ~putOK THEN ImportResult("store_failed", NoSession, l1, FALSE, <<>>)
        ELSE ImportResult(Nil, igs,
                          Append(l1, Call("markSessionReceived", igs.id)), TRUE,
                          << <<igs.RoomID, igs.id, firstKnownIndex>> >>)

\* Lines 157-209. persisted: PutGroupSession returned nil; signal: the
\* markSessionReceived emissions of this call.
ImportRoomKeyFromBackup(v, roomID, sessionID, data, enc, putOK) ==
    IF ~AlgorithmSupported(data)
      THEN ImportResult("unsupported_algorithm", NoSession, <<>>, FALSE, <<>>)
    ELSE
      LET igsInternal == InboundGroupSessionImport(data.SessionKey)
          l0 == << Call("InboundGroupSessionImport", sessionID) >>
      IN
      IF igsInternal.err
        THEN ImportResult("import_failed", NoSession, l0, FALSE, <<>>)
      ELSE IF ~SessionIDMatches(igsInternal, sessionID)
        THEN ImportResult("session_id_mismatch", NoSession, l0, FALSE, <<>>)
      ELSE
        LET l1 == Append(l0, Call("GetEncryptionEvent", roomID))
            config == RotationConfig(enc)
            firstKnownIndex == igsInternal.FirstKnownIndex
            igs == [id |-> sessionID, RoomID |-> roomID,
                    SenderKey |-> data.SenderKey,
                    SigningKey |-> data.SigningKey,
                    ForwardingChains |-> ForwardingChainsOf(data),
                    MaxAge |-> Duration_Milliseconds(config.maxAge),
                    MaxMessages |-> config.maxMessages,
                    KeyBackupVersion |-> v,
                    FirstKnownIndex |-> firstKnownIndex]
        IN  PersistAndSignal(igs, firstKnownIndex, l1, putOK)

\* CryptoStore.PutGroupSession: sessions are keyed by (room, sender key, session).
PutGroupSession(st, igs) ==
    { s \in st : <<s.RoomID, s.SenderKey, s.id>> # <<igs.RoomID, igs.SenderKey, igs.id>> }
    \cup {igs}

NoImportIn ==
    [called |-> FALSE, roomID |-> Nil, sessionID |-> Nil,
     Algorithm |-> Nil, SessionKey |-> [valid |-> FALSE, id |-> Nil, firstIndex |-> 0],
     ForwardingKeyChain |-> <<>>, enc |-> NoEncryptionEvent, putOK |-> FALSE,
     storeBefore |-> {}, signalsBefore |-> <<>>,
     entry |-> 0, countBefore |-> 0, failedBefore |-> 0]

\* Whether the call log holds a call of fn.
Logged(log, fn) == \E i \in 1..Len(log) : log[i].fn = fn

\* The arguments of a call and the collaborator answers it asked for: enc and
\* putOK are recorded only when the call reached GetEncryptionEvent and
\* PutGroupSession. entry, countBefore and failedBefore are set by
\* GetAndStoreKeyBackup's loop: the entry it imports and its counters before.
ImportInOf(roomID, sessionID, data, enc, putOK, log, st, sg) ==
    [called |-> TRUE, roomID |-> roomID, sessionID |-> sessionID,
     Algorithm |-> data.Algorithm, SessionKey |-> data.SessionKey,
     ForwardingKeyChain |-> data.ForwardingKeyChain,
     enc |-> IF Logged(log, "GetEncryptionEvent") THEN enc
             ELSE NoEncryptionEvent,
     putOK |-> Logged(log, "PutGroupSession") /\ putOK,
     storeBefore |-> st, signalsBefore |-> sg,
     entry |-> 0, countBefore |-> 0, failedBefore |-> 0]

NoImportOut == [err |-> Nil, igs |-> NoSession, calls |-> <<>>]

----------------------------------------------------------------------------
(* GetAndStoreKeyBackup *)

\* A slip in lines 140-145: a failed import falls through to count++.
LoopBody_CountsFailedImport(cnt, failed, decryptOK, importErr) ==
    IF ~decryptOK THEN [count |-> cnt, failedCount |-> failed + 1]
    ELSE [count |-> cnt + 1, failedCount |-> failed]

\* Lines 132-145: the counters after one run of the loop body.
LoopBody(cnt, failed, decryptOK, importErr) ==
    IF ~decryptOK THEN [count |-> cnt, failedCount |-> failed + 1]
    ELSE IF importErr # Nil THEN [count |-> cnt, failedCount |-> failed + 1]
    ELSE [count |-> cnt + 1, failedCount |-> failed]

\* Line 130-131: whether the range visits another entry after `visited` entries.
HasNextEntry(n, visited, isCancelled) == visited < n

NoReturn == [returned |-> FALSE, version |-> Nil, err |-> Nil]
Return(v, err) == [returned |-> TRUE, version |-> v, err |-> err]

NoCancel == [visited |-> 0, store |-> {}]

\* The pickle state before any pickle run.
NoPickle == [stage |-> "idle"]

\* No chain has been constructed. senderKey/senderRatchet/senderAdvances (and
\* the receiver's) remember what a chain was constructed from and how often it
\* was advanced.
NoChains ==
    [hasSender |-> FALSE, sender |-> Nil, senderKey |-> Nil,
     senderRatchet |-> Nil, senderAdvances |-> 0,
     hasReceiver |-> FALSE, receiver |-> Nil, receiverKey |-> Nil,
     receiverRatchet |-> Nil, receiverAdvances |-> 0]

----------------------------------------------------------------------------
(* The key-backup pipeline as a state machine *)

InitBackup ==
    /\ pc = "idle"
    /\ op = Nil
    /\ key = Nil
    /\ verifyIn = NoEnv
    /\ verifyOut = NoVerifyOut
    /\ calls = <<>>
    /\ ret = NoReturn
    /\ version = Nil
    /\ keys = 0
    /\ attempts = [i \in {} |-> 0]
    /\ outcome = <<>>
    /\ count = 0
    /\ failedCount = 0
    /\ store = {}
    /\ signals = <<>>
    /\ cancelled = FALSE
    /\ atCancel = NoCancel
    /\ importIn = NoImportIn
    /\ importOut = NoImportOut

\* No "cancel" command has run.
NoJSONResult ==
    [state |-> "none", value |-> FALSE, id |-> 0, reason |-> "",
     registered |-> FALSE, invokedBefore |-> {}]

InitJSON ==
    /\ jsonRequests = {}
    /\ cancelInvoked = {}
    /\ jsonResult = NoJSONResult

\* The Sync calls a client may see.
SyncCalls == 1..MaxSyncCalls

\* The nil context.CancelFunc. The cancel function made by Sync call t
\* (line 183) is written t.
NoCancelFunc == 0

\* A Sync call that has not been issued. fn: the local of line 172;
\* syncingID: the local of line 178; loopID: the client-side syncing ID its
\* SyncWithContext runs under; loopSeq: its position among the calls that
\* entered SyncWithContext (0: not entered).
NoSyncCall ==
    [pc |-> "idle", fn |-> NoCancelFunc, syncingID |-> 0, loopID |-> 0,
     loopSeq |-> 0]

InitSync ==
    /\ syncer = [t \in SyncCalls |-> NoSyncCall]
    /\ stopper = [pc |-> "idle", fn |-> NoCancelFunc]
    /\ syncLock = "free"
    /\ syncingID = 0
    /\ stopSync = NoCancelFunc
    /\ cancelledCtx = {}
    /\ clientSyncingID = 0
    /\ db = [closed |-> FALSE, loopAtClose |-> FALSE]

Init ==
    /\ InitBackup
    /\ pk = NoPickle
    /\ ratchetChains = NoChains
    /\ InitJSON
    /\ InitSync

\* A caller invokes GetAndVerifyLatestKeyBackupVersion (lines 36-118).
VerifyCall ==
    /\ pc = "idle"
    /\ \E k \in BackupKeys \cup {Nil}, env \in Envs :
         \E order \in Perms(DOMAIN env.sigs) :
           LET r == GetAndVerifyLatestKeyBackupVersion(k, env, order)
           IN  /\ op' = "verify"
               /\ key' = k
               /\ verifyIn' = env
               /\ verifyOut' = [res |-> r.res, err |-> r.err, info |-> r.info]
               /\ calls' = r.calls
               /\ pc' = IF r.res = "panic" THEN "crashed" ELSE "done"
               /\ ret' = IF r.res = "panic" THEN NoReturn ELSE Return(r.info, r.err)
    /\ UNCHANGED <<version, keys, attempts, outcome, count, failedCount, store,
                   signals, cancelled, atCancel, importIn, importOut, pk,
                   ratchetChains, hicliVars>>

\* DownloadAndStoreLatestKeyBackup, lines 18-25: the call of
\* GetAndVerifyLatestKeyBackupVersion.
DownloadVerify ==
    /\ pc = "idle"
    /\ \E k \in BackupKeys \cup {Nil}, env \in Envs :
         \E order \in Perms(DOMAIN env.sigs) :
           LET r == GetAndVerifyLatestKeyBackupVersion(k, env, order)
           IN  /\ op' = "download"
               /\ key' = k
               /\ verifyIn' = env
               /\ verifyOut' = [res |-> r.res, err |-> r.err, info |-> r.info]
               /\ calls' = r.calls
               /\ pc' = IF r.res = "panic" THEN "crashed" ELSE "dl_check"
    /\ UNCHANGED <<ret, version, keys, attempts, outcome, count, failedCount,
                   store, signals, cancelled, atCancel, importIn, importOut, pk,
                   ratchetChains, hicliVars>>

\* DownloadAndStoreLatestKeyBackup, lines 26-32: the error checks and the call
\* of GetAndStoreKeyBackup. The answers GetAndVerifyLatestKeyBackupVersion saw
\* go out of scope with its frame.
DownloadCheck ==
    /\ pc = "dl_check"
    /\ verifyIn' = NoEnv
    /\ IF verifyOut.res = "err"
         THEN /\ ret' = Return("", verifyOut.err)
              /\ pc' = "done"
              /\ UNCHANGED version
       ELSE IF verifyOut.info = Nil
         THEN /\ ret' = Return("", Nil)
              /\ pc' = "done"
              /\ UNCHANGED version
       ELSE /\ version' = verifyOut.info
            /\ pc' = "fetch"
            /\ UNCHANGED ret
    /\ UNCHANGED <<op, key, verifyOut, calls, keys, attempts, outcome, count,
                   failedCount, store, signals, cancelled, atCancel, importIn,
                   importOut, pk,
                   ratchetChains, hicliVars>>

\* A caller invokes GetAndStoreKeyBackup directly (line 120), with a key to
\* decrypt with.
StoreCall ==
    /\ pc = "idle"
    /\ \E k \in BackupKeys :
         /\ op' = "store"
         /\ key' = k
         /\ version' = LatestVersion
         /\ pc' = "fetch"
    /\ UNCHANGED <<verifyIn, verifyOut, calls, ret, keys, attempts, outcome,
                   count, failedCount, store, signals, cancelled, atCancel,
                   importIn, importOut, pk,
                   ratchetChains, hicliVars>>

\* What the running call returns when GetAndStoreKeyBackup returns err: line 33
\* passes versionInfo.Version along.
StoreReturnValue(err) ==
    IF op = "download" THEN Return(version, err) ELSE Return(Nil, err)

\* GetAndStoreKeyBackup, lines 121-128: Client.GetKeyBackup and its error check.
FetchBackup ==
    /\ pc = "fetch"
    /\ calls' = Append(calls, Call("GetKeyBackup", version))
    /\ \E ok \in BOOLEAN :
         IF ~ok
           THEN /\ ret' = StoreReturnValue("get_key_backup")
                /\ pc' = "done"
                /\ UNCHANGED <<keys, attempts>>
         ELSE \E n \in 0..MaxEntries :
                /\ keys' = n
                /\ attempts' = [i \in 1..n |-> 0]
                /\ pc' = "loop"
                /\ UNCHANGED ret
    /\ UNCHANGED <<op, key, verifyIn, verifyOut, version, outcome, count,
                   failedCount, store, signals, cancelled, atCancel, importIn,
                   importOut, pk,
                   ratchetChains, hicliVars>>

\* GetAndStoreKeyBackup, lines 130-146: the loop body for the next entry the
\* range visits: Decrypt, then ImportRoomKeyFromBackup.
ProcessEntry ==
    /\ pc = "loop"
    /\ HasNextEntry(keys, Len(outcome), cancelled)
    /\ LET i == Len(outcome) + 1
           roomID == EntryRoom[i]
           sessionID == EntrySession[i]
       IN
       /\ attempts' = [attempts EXCEPT ![i] = @ + 1]
       /\ \E decryptOK \in BOOLEAN :
            IF ~decryptOK
              THEN LET c == LoopBody(count, failedCount, FALSE, Nil)
                   IN  /\ count' = c.count
                       /\ failedCount' = c.failedCount
                       /\ outcome' = Append(outcome, "decrypt_failed")
                       /\ UNCHANGED <<calls, store, signals, importIn, importOut>>
            ELSE \E data \in SessionDatas(sessionID, {0}, { << "fwdA" >> }),
                    enc \in EncAnswers({WeekMillis}), putOK \in BOOLEAN :
                   LET r == ImportRoomKeyFromBackup(version, roomID, sessionID,
                                                    data, enc, putOK)
                       c == LoopBody(count, failedCount, TRUE, r.err)
                   IN  /\ count' = c.count
                       /\ failedCount' = c.failedCount
                       /\ outcome' = Append(outcome,
                              IF r.err = Nil THEN "imported" ELSE "import_failed")
                       /\ calls' = calls \o r.calls
                       /\ store' = IF r.persisted
                                     THEN PutGroupSession(store, r.igs) ELSE store
                       /\ signals' = signals \o r.signal
                       /\ importIn' =
                            [ImportInOf(roomID, sessionID, data, enc, putOK,
                                        r.calls, store, signals)
                               EXCEPT !.entry = i, !.countBefore = count,
                                      !.failedBefore = failedCount]
                       /\ importOut' = [err |-> r.err, igs |-> r.igs,
                                        calls |-> r.calls]
    /\ UNCHANGED <<pc, op, key, verifyIn, verifyOut, ret, version, keys,
                   cancelled, atCancel, pk, ratchetChains, hicliVars>>

\* GetAndStoreKeyBackup, lines 149-154: the range is over; log and return nil.
StoreReturn ==
    /\ pc = "loop"
    /\ ~HasNextEntry(keys, Len(outcome), cancelled)
    /\ ret' = StoreReturnValue(Nil)
    /\ pc' = "done"
    /\ UNCHANGED <<op, key, verifyIn, verifyOut, calls, version, keys, attempts,
                   outcome, count, failedCount, store, signals, cancelled,
                   atCancel, importIn, importOut, pk,
                   ratchetChains, hicliVars>>

\* The caller cancels ctx while GetAndStoreKeyBackup is in its loop.
Cancel ==
    /\ pc = "loop"
    /\ ~cancelled
    /\ cancelled' = TRUE
    /\ atCancel' = [visited |-> Len(outcome), store |-> store]
    /\ UNCHANGED <<pc, op, key, verifyIn, verifyOut, calls, ret, version, keys,
                   attempts, outcome, count, failedCount, store, signals,
                   importIn, importOut, pk,
                   ratchetChains, hicliVars>>

\* A caller invokes ImportRoomKeyFromBackup directly (lines 157-209).
ImportCall ==
    /\ pc = "idle"
    /\ \E data \in SessionDatas(EntrySession[1], {0, 3}, ForwardingChains),
          enc \in EncAnswers(RotationPeriods), putOK \in BOOLEAN :
         LET roomID == EntryRoom[1]
             sessionID == EntrySession[1]
             r == ImportRoomKeyFromBackup(LatestVersion, roomID, sessionID,
                                          data, enc, putOK)
         IN  /\ op' = "import"
             /\ version' = LatestVersion
             /\ calls' = r.calls
             /\ store' = IF r.persisted
                           THEN PutGroupSession(store, r.igs) ELSE store
             /\ signals' = signals \o r.signal
             /\ importIn' = ImportInOf(roomID, sessionID, data, enc, putOK,
                                       r.calls, store, signals)
             /\ importOut' = [err |-> r.err, igs |-> r.igs, calls |-> r.calls]
             /\ ret' = Return(Nil, r.err)
             /\ pc' = "done"
    /\ UNCHANGED <<key, verifyIn, verifyOut, keys, attempts, outcome, count,
                   failedCount, cancelled, atCancel, pk, ratchetChains, hicliVars>>

Next ==
    \/ VerifyCall
    \/ DownloadVerify
    \/ DownloadCheck
    \/ StoreCall
    \/ FetchBackup
    \/ ProcessEntry
    \/ StoreReturn
    \/ Cancel
    \/ ImportCall

Spec == Init /\ [][Next]_vars

----------------------------------------------------------------------------
(* Claims about the key-backup pipeline (checked under Spec) *)

VerifyRan == verifyIn.fetch # "none"

SignaturePathCalls ==
    { "GetOwnCrossSigningPublicKeys", "GetDevice", "IsDeviceTrusted",
      "VerifySignatureJSON" }

Called(fn) == \E i \in 1..Len(calls) : calls[i].fn = fn

\* An ed25519 signature under the own user ID that verifies against the own
\* master key or against the signing key of a known, trusted device.
EligibleSignature(env, kid) ==
    /\ env.hasUserSigs
    /\ kid \in DOMAIN env.sigs
    /\ kid[1] = KeyAlgorithmEd25519
    /\ env.crossSigning # Nil
    /\ \/ kid[2] = env.crossSigning /\ env.sigs[kid] = env.crossSigning
       \/ /\ kid[2] # env.crossSigning
          /\ env.device[kid[2]].status = "found"
          /\ env.device[kid[2]].trusted
          /\ env.sigs[kid] = env.device[kid[2]].SigningKey

ImportedEntries == { i \in 1..Len(outcome) : outcome[i] = "imported" }
FailedEntries == { i \in 1..Len(outcome) : outcome[i] # "imported" }

\* GetAndStoreKeyBackup got its payload and returned.
RestoreReturned ==
    /\ pc = "done"
    /\ op \in {"store", "download"}
    /\ Called("GetKeyBackup")
    /\ ret.err # "get_key_backup"

\* C1: an ImportRoomKeyFromBackup whose session key derives a session ID other
\* than the claimed one returns an error, makes no PutGroupSession call, leaves
\* the store as it was and emits no session-received signal.
C1_MismatchedSessionIDRejected ==
    (importIn.called /\ importIn.SessionKey.valid
        /\ importIn.SessionKey.id # importIn.sessionID)
    => /\ importOut.err # Nil
       /\ importOut.igs = NoSession
       /\ \A i \in 1..Len(importOut.calls) :
            importOut.calls[i].fn # "PutGroupSession"
       /\ store = importIn.storeBefore
       /\ signals = importIn.signalsBefore

C1_Witness ==
    /\ importIn.called
    /\ importIn.Algorithm = AlgorithmMegolmV1
    /\ importIn.SessionKey.valid
    /\ importIn.SessionKey.id # importIn.sessionID
    /\ importOut.err = "session_id_mismatch"

\* C13: an ImportRoomKeyFromBackup of session data whose algorithm is not
\* megolm-v1 returns an error before any ratchet is constructed (no
\* collaborator is called), persists nothing and emits no session-received
\* signal; GetAndStoreKeyBackup counts that entry as failed and not as imported.
C13_UnsupportedSessionAlgorithmRejected ==
    (importIn.called /\ importIn.Algorithm # AlgorithmMegolmV1) =>
      /\ importOut.err = "unsupported_algorithm"
      /\ importOut.igs = NoSession
      /\ importOut.calls = <<>>
      /\ store = importIn.storeBefore
      /\ signals = importIn.signalsBefore
      /\ importIn.entry > 0 =>
           /\ outcome[importIn.entry] = "import_failed"
           /\ count = importIn.countBefore
           /\ failedCount
                = importIn.failedBefore + 1 + (Len(outcome) - importIn.entry)

\* A restore whose first entry is imported and whose second entry declares
\* another algorithm.
C13_Witness ==
    /\ importIn.called /\ importIn.entry = 2
    /\ importIn.Algorithm # AlgorithmMegolmV1
    /\ outcome = << "imported", "import_failed" >>
    /\ count = 1 /\ failedCount = 1
    /\ Cardinality(store) = 1

\* The run reached the range over the owner's signatures (line 80).
SignatureLoopReached ==
    /\ VerifyRan
    /\ Called("GetOwnCrossSigningPublicKeys")
    /\ verifyIn.crossSigning # Nil

\* No GetDevice of the run can return a store error.
NoStoreError ==
    \A d \in DeviceNames : verifyIn.device[d].status # "err"

\* The signatures the run handed to VerifySignatureJSON, in order.
VerifiedNames ==
    SelectSeq(calls, LAMBDA c : c.fn = "VerifySignatureJSON")

\* C14: in the signature loop, when GetDevice returns no store error, a
\* signature of an unknown device, of an untrusted device, of a non-ed25519
\* key or one that fails verification is skipped: the backup is trusted
\* exactly when some owner signature verifies under the master key or a known
\* trusted device, however many ineligible signatures there are and wherever
\* the iteration meets them; the verifying signature is the last one checked.
C14_IneligibleSignaturesSkipped ==
    (SignatureLoopReached /\ NoStoreError) =>
      /\ verifyOut.res = "ok"
           <=> \E kid \in DOMAIN verifyIn.sigs : EligibleSignature(verifyIn, kid)
      /\ verifyOut.res = "ok" =>
           /\ calls[Len(calls)].fn = "VerifySignatureJSON"
           /\ EligibleSignature(verifyIn,
                  <<KeyAlgorithmEd25519, calls[Len(calls)].arg>>)
           /\ \A i \in 1..(Len(VerifiedNames) - 1) :
                ~EligibleSignature(verifyIn,
                    <<KeyAlgorithmEd25519, VerifiedNames[i].arg>>)
      /\ verifyOut.res = "err" => verifyOut.err = "no_valid_signature"

\* Three signatures: a master-key signature that fails verification is met
\* first, then the signature of the trusted device verifies.
C14_Witness ==
    /\ SignatureLoopReached /\ NoStoreError
    /\ Cardinality(DOMAIN verifyIn.sigs) = 3
    /\ verifyOut.res = "ok"
    /\ Len(VerifiedNames) = 2
    /\ VerifiedNames[1].arg = verifyIn.crossSigning
    /\ VerifiedNames[2].arg = "DEVA"

\* The position of the first call of fn in log (0: none).
FirstCall(log, fn) ==
    IF Logged(log, fn)
      THEN CHOOSE i \in 1..Len(log) :
             log[i].fn = fn /\ \A j \in 1..(i - 1) : log[j].fn # fn
      ELSE 0

\* C17: ImportRoomKeyFromBackup emits the session-received signal for a
\* (room, session) only after PutGroupSession for that session returned
\* successfully; when PutGroupSession returns an error the import returns an
\* error and no session and emits no signal.
C17_PersistBeforeSignal ==
    /\ \A i \in 1..Len(signals) :
         \E st \in store : st.RoomID = signals[i][1] /\ st.id = signals[i][2]
    /\ importIn.called =>
         /\ (Logged(importOut.calls, "markSessionReceived")
                \/ signals # importIn.signalsBefore) =>
              /\ importIn.putOK
              /\ importOut.err = Nil
              /\ importOut.igs \in store
              /\ FirstCall(importOut.calls, "PutGroupSession") > 0
              /\ FirstCall(importOut.calls, "PutGroupSession")
                   < FirstCall(importOut.calls, "markSessionReceived")
              /\ signals = Append(importIn.signalsBefore,
                                  <<importIn.roomID, importIn.sessionID,
                                    importIn.SessionKey.firstIndex>>)
         /\ (Logged(importOut.calls, "PutGroupSession") /\ ~importIn.putOK) =>
              /\ importOut.err = "store_failed"
              /\ importOut.igs = NoSession
              /\ ~Logged(importOut.calls, "markSessionReceived")
              /\ signals = importIn.signalsBefore
              /\ store = importIn.storeBefore

\* The store accepts the first session of a restore and fails on the second.
C17_Witness ==
    /\ importIn.called /\ importIn.entry = 2
    /\ Logged(importOut.calls, "PutGroupSession") /\ ~importIn.putOK
    /\ importOut.err = "store_failed"
    /\ Len(signals) = 1 /\ signals[1][2] = EntrySession[1]
    /\ Cardinality(store) = 1

\* C18: the room encryption-config lookup is best-effort: when
\* GetEncryptionEvent returns an error or no config the import still succeeds
\* (the store permitting) and persists the session with MaxAge and MaxMessages
\* zero; when a config is found, MaxAge equals its rotation period in
\* milliseconds and MaxMessages its rotation message count.
C18_RotationConfigBestEffort ==
    (importIn.called /\ Logged(importOut.calls, "GetEncryptionEvent")) =>
      /\ importIn.putOK => (importOut.err = Nil /\ importOut.igs \in store)
      /\ (importOut.err = Nil /\ importIn.enc.status # "found") =>
           /\ importOut.igs.MaxAge = Int64(0)
           /\ importOut.igs.MaxMessages = 0
      /\ (importOut.err = Nil /\ importIn.enc.status = "found") =>
           /\ importOut.igs.MaxAge = importIn.enc.RotationPeriodMillis
           /\ importOut.igs.MaxMessages = importIn.enc.RotationPeriodMessages

\* C19: the stored session's forwarding chain is the sender-claimed chain in
\* its original order with the sender key appended: one element longer, every
\* claimed element at its position, the sender key last.
C19_ForwardingChainAppendsSender ==
    (importIn.called /\ importOut.err = Nil) =>
      LET claimed == importIn.ForwardingKeyChain
          chain == importOut.igs.ForwardingChains
      IN  /\ Len(chain) = Len(claimed) + 1
          /\ \A i \in 1..Len(claimed) : chain[i] = claimed[i]
          /\ chain[Len(chain)] = SenderKey
          /\ \E st \in store :
               /\ st.RoomID = importIn.roomID /\ st.id = importIn.sessionID
               /\ st.ForwardingChains = chain

\* A session forwarded twice is imported.
C19_Witness ==
    /\ importIn.called /\ importOut.err = Nil
    /\ importIn.ForwardingKeyChain = << "fwdA", "fwdB" >>
    /\ importOut.igs.ForwardingChains = << "fwdA", "fwdB", SenderKey >>

\* C20: for fixed version info, recovery key and answers of the device/trust
\* store (GetDevice errors included), GetAndVerifyLatestKeyBackupVersion
\* yields the same outcome (trusted, or the same kind of error) for every
\* order in which the owner's signatures are visited.
C20_OutcomeIndependentOfOrder ==
    (VerifyRan /\ pc # "crashed") =>
      \A order \in Perms(DOMAIN verifyIn.sigs) :
        LET r == GetAndVerifyLatestKeyBackupVersion(key, verifyIn, order)
        IN  r.res = verifyOut.res /\ r.err = verifyOut.err

\* C2: GetAndVerifyLatestKeyBackupVersion returns the version info only if the
\* algorithm is megolm-backup-v1 and the recovery key's public key matches or an
\* eligible owner signature verifies; in every other outcome it returns an
\* error and no version info.
C2_TrustedOnlyIfKeyOrSignature ==
    VerifyRan =>
      /\ verifyOut.res = "ok" =>
           /\ verifyIn.fetch = "ok"
           /\ verifyIn.algorithm = KeyBackupAlgorithmMegolmBackupV1
           /\ \/ key # Nil /\ PublicKeyOf[key] = verifyIn.authPublicKey
              \/ \E kid \in DOMAIN verifyIn.sigs : EligibleSignature(verifyIn, kid)
      /\ verifyOut.res # "ok" =>
           /\ verifyOut.res = "err"
           /\ verifyOut.err # Nil
           /\ verifyOut.info = Nil

\* C3 as stated: whenever a recovery key is supplied and its derived public key
\* equals auth_data.public_key, the backup is returned as trusted and no
\* signature-path step is performed.
C3_KeyMatchAlwaysTrusted ==
    (VerifyRan /\ verifyIn.fetch = "ok" /\ key # Nil
        /\ PublicKeyOf[key] = verifyIn.authPublicKey)
    => /\ verifyOut.res = "ok"
       /\ \A i \in 1..Len(calls) : calls[i].fn \notin SignaturePathCalls

\* C3, amended: when the latest version's algorithm is megolm-backup-v1, a
\* recovery key is supplied and its derived public key equals
\* auth_data.public_key, the backup is returned as trusted and no
\* signature-path step is performed in that run.
C3_KeyMatchTrustedWithoutSignatureChecks ==
    (VerifyRan /\ verifyIn.fetch = "ok"
        /\ verifyIn.algorithm = KeyBackupAlgorithmMegolmBackupV1
        /\ key # Nil /\ PublicKeyOf[key] = verifyIn.authPublicKey)
    => /\ verifyOut.res = "ok"
       /\ verifyOut.info = LatestVersion
       /\ \A i \in 1..Len(calls) : calls[i].fn \notin SignaturePathCalls

\* The recovery key matches although an owner signature would verify too.
C3_Witness ==
    /\ VerifyRan
    /\ verifyIn.algorithm = KeyBackupAlgorithmMegolmBackupV1
    /\ key # Nil /\ PublicKeyOf[key] = verifyIn.authPublicKey
    /\ \E kid \in DOMAIN verifyIn.sigs : EligibleSignature(verifyIn, kid)
    /\ verifyOut.res = "ok"
    /\ calls = << Call("GetKeyBackupLatestVersion", Nil) >>

\* C4: over a fetched backup of N entries of which F fail, every entry is
\* attempted exactly once, a failure stops nothing, and at the end
\* count = N - F, failedCount = F, exactly the imported sessions are persisted
\* and the call returns nil.
C4_PartialFailureRestore ==
    /\ \A i \in DOMAIN attempts : attempts[i] <= 1
    /\ \A i \in DOMAIN attempts : attempts[i] = 1 <=> i <= Len(outcome)
    /\ RestoreReturned =>
         /\ Len(outcome) = keys
         /\ \A i \in 1..keys : attempts[i] = 1
         /\ failedCount = Cardinality(FailedEntries)
         /\ count = keys - Cardinality(FailedEntries)
         /\ { <<s.RoomID, s.id>> : s \in store }
              = { <<EntryRoom[i], EntrySession[i]>> : i \in ImportedEntries }
         /\ Cardinality(store) = count
         /\ ret.err = Nil

\* A first entry that fails, followed by one that is imported.
C4_Witness ==
    /\ RestoreReturned
    /\ keys >= 2
    /\ outcome[1] # "imported"
    /\ outcome[2] = "imported"
    /\ failedCount >= 1
    /\ count >= 1

\* C5: DownloadAndStoreLatestKeyBackup fetches the payload only after trust
\* verification succeeded; when the version fetch fails or trust cannot be
\* established it returns an error with an empty version, fetches no payload
\* and persists nothing; when the payload fetch fails it returns an error and
\* persists nothing.
C5_FetchOnlyAfterTrust ==
    op = "download" =>
      /\ Called("GetKeyBackup") => verifyOut.res = "ok"
      /\ (pc \notin {"idle", "dl_check"} /\ verifyOut.res # "ok") =>
           /\ ret.returned
           /\ ret.err # Nil
           /\ ret.version = ""
           /\ ~Called("GetKeyBackup")
           /\ store = {}
      /\ ret.err = "get_key_backup" => (ret.returned /\ store = {})

\* C6: with no recovery key (megolmBackupKey nil) the call does not crash: it
\* returns the trusted version info or an error, decided by the signature path.
C6_NilKeyDoesNotCrash ==
    (VerifyRan /\ key = Nil) =>
      /\ pc # "crashed"
      /\ verifyOut.res \in {"ok", "err"}
      /\ verifyOut.res = "ok" =>
           \E kid \in DOMAIN verifyIn.sigs : EligibleSignature(verifyIn, kid)

\* C7: after ctx is cancelled between two entries, the sessions imported
\* before stay persisted and unchanged, and no entry that had not been reached
\* is decrypted or imported.
C7_CancelStopsEnumeration ==
    (cancelled /\ atCancel.visited >= 1) =>
      /\ atCancel.store \subseteq store
      /\ \A i \in DOMAIN attempts : i > atCancel.visited => attempts[i] = 0

----------------------------------------------------------------------------
(* libolm pickle primitives (crypto/goolm/libolmpickle, crypto/goolm/crypto) *)

\* crypto.Curve25519PubKeyLength
Curve25519PubKeyLength == 32
\* libolmpickle.PickleUInt32Length
PickleUInt32Length == 4
messageKeyLength == 32

chainKeyPickleLength == Curve25519PubKeyLength + PickleUInt32Length
\* chain.go lines 68-69: both terms are chainKeyPickleLength
senderChainPickleLength == chainKeyPickleLength + chainKeyPickleLength
receiverChainPickleLength == Curve25519PubKeyLength + chainKeyPickleLength
messageKeyPickleLength == messageKeyLength + PickleUInt32Length
skippedMessageKeyPickleLen == Curve25519PubKeyLength + messageKeyPickleLength

Min(a, b) == IF a < b THEN a ELSE b

Zeros(n) == [i \in 1..n |-> 0]

\* binary.BigEndian.PutUint32
BigEndian(v) ==
    << (v \div 16777216) % 256, (v \div 65536) % 256, (v \div 256) % 256, v % 256 >>

\* binary.BigEndian.Uint32 of the first four bytes of b
FromBigEndian(b) == b[1] * 16777216 + b[2] * 65536 + b[3] * 256 + b[4]

\* A target slice is a buffer and the offset the slice starts at: target[n:]
\* is the same buffer at offset off + n. copy(target, bytes) writes as many
\* bytes as fit and returns their number.
CopyInto(buf, off, bytes) ==
    [buf |-> [i \in 1..Len(buf) |->
                IF i > off /\ i <= off + Len(bytes) THEN bytes[i - off] ELSE buf[i]],
     written |-> Min(Len(bytes), Len(buf) - off),
     err |-> FALSE]

PickleError(buf) == [buf |-> buf, written |-> 0, err |-> TRUE]

\* libolmpickle.PickleBytes
PickleBytes(value, buf, off) == CopyInto(buf, off, value)

\* libolmpickle.PickleUInt32
PickleUInt32(value, buf, off) == CopyInto(buf, off, BigEndian(value))

\* libolmpickle.UnpickleBytes(value, length)
UnpickleBytes(value, length) ==
    IF Len(value) < length THEN [err |-> TRUE, bytes |-> <<>>, read |-> 0]
    ELSE [err |-> FALSE, bytes |-> SubSeq(value, 1, length), read |-> length]

\* libolmpickle.UnpickleUInt32
UnpickleUInt32(value) ==
    IF Len(value) < PickleUInt32Length THEN [err |-> TRUE, value |-> 0, read |-> 0]
    ELSE [err |-> FALSE, value |-> FromBigEndian(value), read |-> PickleUInt32Length]

\* crypto.Curve25519PublicKey.PickleLibOlm
Curve25519PublicKey_PickleLibOlm(c, buf, off) ==
    IF Len(buf) - off < Curve25519PubKeyLength THEN PickleError(buf)
    ELSE IF Len(c) # Curve25519PubKeyLength
      THEN PickleBytes(Zeros(Curve25519PubKeyLength), buf, off)
    ELSE PickleBytes(c, buf, off)

\* crypto.Curve25519PublicKey.UnpickleLibOlm
Curve25519PublicKey_UnpickleLibOlm(value) ==
    UnpickleBytes(value, Curve25519PubKeyLength)

\* crypto.Curve25519KeyLength: the length of a Curve25519 private key
Curve25519KeyLength == 32

\* crypto.Curve25519KeyPair.PickleLibOlm: the public key followed by the
\* private key, each copied verbatim (a private key of the wrong length is
\* replaced by zeros).
Curve25519KeyPair_PickleLibOlm(c, buf, off) ==
    IF Len(buf) - off < Curve25519PubKeyLength + Curve25519KeyLength
      THEN PickleError(buf)
    ELSE
      LET w1 == Curve25519PublicKey_PickleLibOlm(c.PublicKey, buf, off)
      IN  IF w1.err THEN PickleError(w1.buf)
          ELSE
            LET w2 == IF Len(c.PrivateKey) # Curve25519KeyLength
                        THEN PickleBytes(Zeros(Curve25519KeyLength), w1.buf,
                                         off + w1.written)
                        ELSE PickleBytes(c.PrivateKey, w1.buf, off + w1.written)
            IN  [buf |-> w2.buf, written |-> w1.written + w2.written,
                 err |-> FALSE]

\* crypto.Curve25519KeyPair.UnpickleLibOlm: the public key, then the private
\* key; a truncated input leaves the pair as it was.
Curve25519KeyPair_UnpickleLibOlm(c, value) ==
    LET pub == Curve25519PublicKey_UnpickleLibOlm(value)
    IN  IF pub.err THEN [v |-> c, read |-> 0, err |-> TRUE]
        ELSE
          LET priv == UnpickleBytes(SubSeq(value, pub.read + 1, Len(value)),
                                    Curve25519KeyLength)
          IN  IF priv.err THEN [v |-> c, read |-> 0, err |-> TRUE]
              ELSE [v |-> [PublicKey |-> pub.bytes, PrivateKey |-> priv.bytes],
                    read |-> pub.read + priv.read, err |-> FALSE]

\* value[n:]
From(value, n) == SubSeq(value, n + 1, Len(value))
\* value[:n]
UpTo(value, n) == SubSeq(value, 1, n)

----------------------------------------------------------------------------
(* chainKey, senderChain, receiverChain, messageKey, skippedMessageKey *)

Unpickled(v, read, err) == [v |-> v, read |-> read, err |-> err]

\* chain.go lines 32-45. r is the receiver as it is before the call.
chainKey_UnpickleLibOlm(r, value) ==
    LET k == Curve25519PublicKey_UnpickleLibOlm(value)
    IN  IF k.err THEN Unpickled(r, 0, TRUE)
        ELSE
          LET r1 == [r EXCEPT !.Key = k.bytes]
              curPos == k.read
              ix == UnpickleUInt32(From(value, curPos))
              \* line 39 assigns r.Index also when UnpickleUInt32 fails (to 0)
              r2 == [r1 EXCEPT !.Index = ix.value]
          IN  IF ix.err THEN Unpickled(r2, 0, TRUE)
              ELSE Unpickled(r2, curPos + ix.read, FALSE)

\* chain.go lines 49-59
chainKey_PickleLibOlm(r, buf, off) ==
    IF Len(buf) - off < chainKeyPickleLength THEN PickleError(buf)
    ELSE
      LET w1 == Curve25519PublicKey_PickleLibOlm(r.Key, buf, off)
      IN  IF w1.err THEN PickleError(w1.buf)
          ELSE
            LET w2 == PickleUInt32(r.Index, w1.buf, off + w1.written)
            IN  [buf |-> w2.buf, written |-> w1.written + w2.written,
                 err |-> FALSE]

\* chain.go lines 99-112
senderChain_UnpickleLibOlm(r, value) ==
    LET k == Curve25519KeyPair_UnpickleLibOlm(r.RKey, value)
        r1 == [r EXCEPT !.RKey = k.v]
    IN  IF k.err THEN Unpickled(r1, 0, TRUE)
        ELSE
          LET curPos == k.read
              c == chainKey_UnpickleLibOlm(r1.CKey, From(value, curPos))
              r2 == [r1 EXCEPT !.CKey = c.v]
          IN  IF c.err THEN Unpickled(r2, 0, TRUE)
              ELSE Unpickled(r2, curPos + c.read, FALSE)

\* chain.go lines 116-130
senderChain_PickleLibOlm(r, buf, off) ==
    IF Len(buf) - off < senderChainPickleLength THEN PickleError(buf)
    ELSE
      LET w1 == Curve25519KeyPair_PickleLibOlm(r.RKey, buf, off)
      IN  IF w1.err THEN PickleError(w1.buf)
          ELSE
            LET w2 == chainKey_PickleLibOlm(r.CKey, w1.buf, off + w1.written)
            IN  IF w2.err THEN PickleError(w2.buf)
                ELSE [buf |-> w2.buf, written |-> w1.written + w2.written,
                      err |-> FALSE]

\* chain.go lines 168-181
receiverChain_UnpickleLibOlm(r, value) ==
    LET k == Curve25519PublicKey_UnpickleLibOlm(value)
    IN  IF k.err THEN Unpickled(r, 0, TRUE)
        ELSE
          LET r1 == [r EXCEPT !.RKey = k.bytes]
              curPos == k.read
              c == chainKey_UnpickleLibOlm(r1.CKey, From(value, curPos))
              r2 == [r1 EXCEPT !.CKey = c.v]
          IN  IF c.err THEN Unpickled(r2, 0, TRUE)
              ELSE Unpickled(r2, curPos + c.read, FALSE)

\* chain.go lines 185-199: line 193 pickles CKey into target, not target[written:]
receiverChain_PickleLibOlm(r, buf, off) ==
    IF Len(buf) - off < receiverChainPickleLength THEN PickleError(buf)
    ELSE
      LET w1 == Curve25519PublicKey_PickleLibOlm(r.RKey, buf, off)
      IN  IF w1.err THEN PickleError(w1.buf)
          ELSE
            LET w2 == chainKey_PickleLibOlm(r.CKey, w1.buf, off)
            IN  IF w2.err THEN PickleError(w2.buf)
                ELSE [buf |-> w2.buf, written |-> w1.written + w2.written,
                      err |-> FALSE]

\* chain.go lines 211-226: line 219 reads the index from value[:curPos]
messageKey_UnpickleLibOlm(m, value) ==
    LET k == UnpickleBytes(value, messageKeyLength)
    IN  IF k.err THEN Unpickled(m, 0, TRUE)
        ELSE
          LET m1 == [m EXCEPT !.Key = k.bytes]
              curPos == k.read
              ix == UnpickleUInt32(UpTo(value, curPos))
          IN  IF ix.err THEN Unpickled(m1, 0, TRUE)
              ELSE Unpickled([m1 EXCEPT !.Index = ix.value],
                             curPos + ix.read, FALSE)

\* A slip in lines 235-239: the key is copied whatever its length.
messageKey_PickleLibOlm_CopiesAnyKey(m, buf, off) ==
    IF Len(buf) - off < messageKeyPickleLength THEN PickleError(buf)
    ELSE
      LET w1 == PickleBytes(m.Key, buf, off)
          w2 == PickleUInt32(m.Index, w1.buf, off + w1.written)
      IN  [buf |-> w2.buf, written |-> w1.written + w2.written, err |-> FALSE]

\* chain.go lines 230-242
messageKey_PickleLibOlm(m, buf, off) ==
    IF Len(buf) - off < messageKeyPickleLength THEN PickleError(buf)
    ELSE
      LET w1 == IF Len(m.Key) # messageKeyLength
                  THEN PickleBytes(Zeros(messageKeyLength), buf, off)
                  ELSE PickleBytes(m.Key, buf, off)
          w2 == PickleUInt32(m.Index, w1.buf, off + w1.written)
      IN  [buf |-> w2.buf, written |-> w1.written + w2.written, err |-> FALSE]

\* skipped_message.go lines 20-33
skippedMessageKey_UnpickleLibOlm(r, value) ==
    LET k == Curve25519PublicKey_UnpickleLibOlm(value)
    IN  IF k.err THEN Unpickled(r, 0, TRUE)
        ELSE
          LET r1 == [r EXCEPT !.RKey = k.bytes]
              curPos == k.read
              m == messageKey_UnpickleLibOlm(r1.MKey, From(value, curPos))
              r2 == [r1 EXCEPT !.MKey = m.v]
          IN  IF m.err THEN Unpickled(r2, 0, TRUE)
              ELSE Unpickled(r2, curPos + m.read, FALSE)

\* skipped_message.go lines 37-51: line 45 pickles MKey into target, not
\* target[written:]
skippedMessageKey_PickleLibOlm(r, buf, off) ==
    IF Len(buf) - off < skippedMessageKeyPickleLen THEN PickleError(buf)
    ELSE
      LET w1 == Curve25519PublicKey_PickleLibOlm(r.RKey, buf, off)
      IN  IF w1.err THEN PickleError(w1.buf)
          ELSE
            LET w2 == messageKey_PickleLibOlm(r.MKey, w1.buf, off)
            IN  IF w2.err THEN PickleError(w2.buf)
                ELSE [buf |-> w2.buf, written |-> w1.written + w2.written,
                      err |-> FALSE]

----------------------------------------------------------------------------
(* Pickle runs as a state machine *)

\* 32-byte keys the runs use.
KeyA == [i \in 1..32 |-> i]
KeyB == [i \in 1..32 |-> 100 + i]
Keys32 == {KeyA, KeyB}

\* uint32 indices the runs use; 16909060 is 0x01020304, the big-endian reading
\* of KeyA's first four bytes.
Indices == {0, 1, 16909060, 2147483647}

\* What a target buffer holds before the pickle writes into it.
Fills == {0, 85}

chainKeys == { [Index |-> i, Key |-> k] : i \in Indices, k \in Keys32 }
messageKeys == { [Index |-> i, Key |-> k] : i \in Indices, k \in Keys32 }
\* Message keys whose Key is not messageKeyLength bytes long: nil, too short,
\* too long.
WrongLengthKeys == { <<>>, SubSeq(KeyA, 1, 16), KeyA \o << 33 >> }
wrongLengthMessageKeys ==
    { [Index |-> i, Key |-> k] : i \in Indices, k \in WrongLengthKeys }
\* Bytes a target may have beyond the declared pickle length.
TargetSlack == {0, 4}
receiverChains == { [RKey |-> k, CKey |-> c] : k \in Keys32, c \in chainKeys }
KeyPairs == { [PublicKey |-> KeyA, PrivateKey |-> KeyB],
              [PublicKey |-> KeyB, PrivateKey |-> KeyA] }
senderChains ==
    { [RKey |-> kp, CKey |-> c, IsSet |-> b] :
        kp \in KeyPairs, c \in chainKeys, b \in BOOLEAN }
skippedMessageKeys == { [RKey |-> k, MKey |-> m] : k \in Keys32, m \in messageKeys }

\* Go zero values
ZeroMessageKey == [Index |-> 0, Key |-> <<>>]
ZeroChainKey == [Index |-> 0, Key |-> <<>>]
ZeroReceiverChain == [RKey |-> <<>>, CKey |-> ZeroChainKey]
ZeroSkippedMessageKey == [RKey |-> <<>>, MKey |-> ZeroMessageKey]

Pickled(kind, v, w) ==
    [stage |-> "pickled", kind |-> kind, v |-> v, buf |-> w.buf,
     written |-> w.written, err |-> w.err]

AfterUnpickle(u) ==
    [stage |-> "unpickled", kind |-> pk.kind, v |-> pk.v, buf |-> pk.buf,
     written |-> pk.written, err |-> pk.err,
     out |-> u.v, read |-> u.read, rerr |-> u.err]

Buffer(n, fill) == [i \in 1..n |-> fill]

PickleMessageKey ==
    /\ pk.stage = "idle"
    /\ \E m \in messageKeys \cup wrongLengthMessageKeys, fill \in Fills,
          slack \in TargetSlack :
         pk' = Pickled("messageKey", m,
                 messageKey_PickleLibOlm(m,
                     Buffer(messageKeyPickleLength + slack, fill), 0))
    /\ UNCHANGED <<backupVars, ratchetChains, hicliVars>>

UnpickleMessageKey ==
    /\ pk.stage = "pickled" /\ pk.kind = "messageKey" /\ ~pk.err
    /\ pk' = AfterUnpickle(messageKey_UnpickleLibOlm(ZeroMessageKey, pk.buf))
    /\ UNCHANGED <<backupVars, ratchetChains, hicliVars>>

PickleReceiverChain ==
    /\ pk.stage = "idle"
    /\ \E r \in receiverChains, fill \in Fills :
         pk' = Pickled("receiverChain", r,
                 receiverChain_PickleLibOlm(r, Buffer(receiverChainPickleLength, fill), 0))
    /\ UNCHANGED <<backupVars, ratchetChains, hicliVars>>

UnpickleReceiverChain ==
    /\ pk.stage = "pickled" /\ pk.kind = "receiverChain" /\ ~pk.err
    /\ pk' = AfterUnpickle(receiverChain_UnpickleLibOlm(ZeroReceiverChain, pk.buf))
    /\ UNCHANGED <<backupVars, ratchetChains, hicliVars>>

PickleSenderChain ==
    /\ pk.stage = "idle"
    /\ \E r \in senderChains, fill \in Fills :
         pk' = Pickled("senderChain", r,
                 senderChain_PickleLibOlm(r, Buffer(senderChainPickleLength, fill), 0))
    /\ UNCHANGED <<backupVars, ratchetChains, hicliVars>>

PickleSkippedMessageKey ==
    /\ pk.stage = "idle"
    /\ \E r \in skippedMessageKeys, fill \in Fills :
         pk' = Pickled("skippedMessageKey", r,
                 skippedMessageKey_PickleLibOlm(r, Buffer(skippedMessageKeyPickleLen, fill), 0))
    /\ UNCHANGED <<backupVars, ratchetChains, hicliVars>>

UnpickleSkippedMessageKey ==
    /\ pk.stage = "pickled" /\ pk.kind = "skippedMessageKey" /\ ~pk.err
    /\ pk' = AfterUnpickle(skippedMessageKey_UnpickleLibOlm(ZeroSkippedMessageKey, pk.buf))
    /\ UNCHANGED <<backupVars, ratchetChains, hicliVars>>

\* The first n bytes of a pickle a caller hands to UnpickleLibOlm.
InputBytes(n) == [i \in 1..n |-> 10 + (i % 100)]

\* Receivers that already hold a value when UnpickleLibOlm is called on them.
HeldChainKey == [Index |-> 1, Key |-> KeyA]
HeldMessageKey == [Index |-> 1, Key |-> KeyB]
HeldSenderChain ==
    [RKey |-> [PublicKey |-> KeyA, PrivateKey |-> KeyB], CKey |-> HeldChainKey,
     IsSet |-> TRUE]
HeldReceiverChain == [RKey |-> KeyB, CKey |-> HeldChainKey]
HeldSkippedMessageKey == [RKey |-> KeyA, MKey |-> HeldMessageKey]

ZeroSenderChain ==
    [RKey |-> [PublicKey |-> <<>>, PrivateKey |-> <<>>], CKey |-> ZeroChainKey,
     IsSet |-> FALSE]

Decoded(kind, before, value, u) ==
    [stage |-> "decoded", kind |-> kind, before |-> before, value |-> value,
     out |-> u.v, read |-> u.read, rerr |-> u.err]

DecodeChainKey ==
    /\ pk.stage = "idle"
    /\ \E r \in {ZeroChainKey, HeldChainKey}, n \in 0..MaxInputLen :
         pk' = Decoded("chainKey", r, InputBytes(n),
                       chainKey_UnpickleLibOlm(r, InputBytes(n)))
    /\ UNCHANGED <<backupVars, ratchetChains, hicliVars>>

DecodeSenderChain ==
    /\ pk.stage = "idle"
    /\ \E r \in {ZeroSenderChain, HeldSenderChain}, n \in 0..MaxInputLen :
         pk' = Decoded("senderChain", r, InputBytes(n),
                       senderChain_UnpickleLibOlm(r, InputBytes(n)))
    /\ UNCHANGED <<backupVars, ratchetChains, hicliVars>>

DecodeReceiverChain ==
    /\ pk.stage = "idle"
    /\ \E r \in {ZeroReceiverChain, HeldReceiverChain}, n \in 0..MaxInputLen :
         pk' = Decoded("receiverChain", r, InputBytes(n),
                       receiverChain_UnpickleLibOlm(r, InputBytes(n)))
    /\ UNCHANGED <<backupVars, ratchetChains, hicliVars>>

DecodeMessageKey ==
    /\ pk.stage = "idle"
    /\ \E m \in {ZeroMessageKey, HeldMessageKey}, n \in 0..MaxInputLen :
         pk' = Decoded("messageKey", m, InputBytes(n),
                       messageKey_UnpickleLibOlm(m, InputBytes(n)))
    /\ UNCHANGED <<backupVars, ratchetChains, hicliVars>>

DecodeSkippedMessageKey ==
    /\ pk.stage = "idle"
    /\ \E r \in {ZeroSkippedMessageKey, HeldSkippedMessageKey},
          n \in 0..MaxInputLen :
         pk' = Decoded("skippedMessageKey", r, InputBytes(n),
                       skippedMessageKey_UnpickleLibOlm(r, InputBytes(n)))
    /\ UNCHANGED <<backupVars, ratchetChains, hicliVars>>

NextPickle ==
    \/ PickleMessageKey
    \/ UnpickleMessageKey
    \/ PickleReceiverChain
    \/ UnpickleReceiverChain
    \/ PickleSenderChain
    \/ PickleSkippedMessageKey
    \/ UnpickleSkippedMessageKey
    \/ DecodeChainKey
    \/ DecodeSenderChain
    \/ DecodeReceiverChain
    \/ DecodeMessageKey
    \/ DecodeSkippedMessageKey

SpecPickle == Init /\ [][NextPickle]_vars

----------------------------------------------------------------------------
(* Claims about the pickle layout (checked under SpecPickle) *)

UnpickledKind(kind) == pk.stage = "unpickled" /\ pk.kind = kind

\* C8: PickleLibOlm of a skippedMessageKey into a buffer of
\* skippedMessageKeyPickleLen bytes followed by UnpickleLibOlm yields the same
\* ratchet key, message key bytes and index.
C8_SkippedMessageKeyRoundTrip ==
    UnpickledKind("skippedMessageKey") =>
      /\ ~pk.rerr
      /\ pk.out.RKey = pk.v.RKey
      /\ pk.out.MKey.Key = pk.v.MKey.Key
      /\ pk.out.MKey.Index = pk.v.MKey.Index

\* C9: receiverChain.PickleLibOlm writes the ratchet key to bytes [0,32) and
\* the chain key (32-byte key, 4-byte index) to bytes [32,68), so that
\* UnpickleLibOlm restores the same ratchet key, chain key and chain index.
C9_ReceiverChainLayout ==
    (pk.stage \in {"pickled", "unpickled"} /\ pk.kind = "receiverChain") =>
      /\ ~pk.err
      /\ pk.written = receiverChainPickleLength
      /\ SubSeq(pk.buf, 1, 32) = pk.v.RKey
      /\ SubSeq(pk.buf, 33, 64) = pk.v.CKey.Key
      /\ SubSeq(pk.buf, 65, 68) = BigEndian(pk.v.CKey.Index)
      /\ pk.stage = "unpickled" => (~pk.rerr /\ pk.out = pk.v)

\* C10: UnpickleLibOlm of the output of messageKey.PickleLibOlm returns no
\* error, reports messageKeyPickleLength bytes read and yields the same Key
\* and Index.
C10_MessageKeyRoundTrip ==
    (UnpickledKind("messageKey") /\ Len(pk.v.Key) = messageKeyLength) =>
      /\ ~pk.rerr
      /\ pk.read = messageKeyPickleLength
      /\ pk.out.Key = pk.v.Key
      /\ pk.out.Index = pk.v.Index

\* C11: senderChain.PickleLibOlm into a target of exactly
\* senderChainPickleLength bytes succeeds for every senderChain and returns
\* senderChainPickleLength as the number of bytes written.
C11_SenderChainDeclaredLength ==
    (pk.stage = "pickled" /\ pk.kind = "senderChain") =>
      /\ ~pk.err
      /\ pk.written = senderChainPickleLength

\* C12: messageKey.PickleLibOlm with a Key that is not 32 bytes long (nil
\* included) writes 32 zero bytes in the key slot, then the 4-byte Index,
\* returns 36 bytes written and no error; a 32-byte Key is written verbatim.
\* Bytes of the target beyond the 36 are left as they were.
C12_WrongLengthKeyZeroed ==
    (pk.stage \in {"pickled", "unpickled"} /\ pk.kind = "messageKey") =>
      /\ ~pk.err
      /\ pk.written = messageKeyPickleLength
      /\ SubSeq(pk.buf, 1, messageKeyLength)
           = IF Len(pk.v.Key) = messageKeyLength THEN pk.v.Key
             ELSE Zeros(messageKeyLength)
      /\ SubSeq(pk.buf, messageKeyLength + 1, messageKeyPickleLength)
           = BigEndian(pk.v.Index)
      /\ \A i \in messageKeyPickleLength + 1 .. Len(pk.buf) :
           pk.buf[i] \in Fills /\ pk.buf[i] = pk.buf[Len(pk.buf)]

\* A 16-byte key pickled into a target that held 0x55 everywhere.
C12_Witness ==
    /\ pk.stage = "pickled" /\ pk.kind = "messageKey"
    /\ Len(pk.v.Key) = 16
    /\ pk.v.Index = 16909060
    /\ Len(pk.buf) = messageKeyPickleLength + 4
    /\ pk.buf[Len(pk.buf)] = 85
    /\ pk.buf[1] = 0 /\ pk.buf[messageKeyLength] = 0

\* C15: whenever an UnpickleLibOlm of chainKey, senderChain, receiverChain,
\* messageKey or skippedMessageKey returns an error, it reports 0 bytes read
\* and every field of the receiver has the value it had before the call.
C15_DecodeAllOrNothing ==
    (pk.stage = "decoded" /\ pk.rerr) =>
      /\ pk.read = 0
      /\ pk.out = pk.before

----------------------------------------------------------------------------
(* Chain construction and advancement *)

chainKeySeed == 2

\* crypto.HMACSHA256(key, input): the digest, as a term over its arguments.
HMACSHA256(k, input) == << "HMACSHA256", k, input >>

\* A slip in lines 27-28: the key is replaced, the index is not increased.
chainKey_advance_KeepsIndex(c) ==
    [Index |-> c.Index, Key |-> HMACSHA256(c.Key, << chainKeySeed >>)]

\* chain.go lines 26-29 (the indices reached here are far below the uint32 wrap)
chainKey_advance(c) ==
    [Index |-> c.Index + 1, Key |-> HMACSHA256(c.Key, << chainKeySeed >>)]

\* chain.go lines 72-81
newSenderChain(k, ratchet) ==
    [RKey |-> ratchet, CKey |-> [Index |-> 0, Key |-> k], IsSet |-> TRUE]

\* chain.go lines 84-86
senderChain_advance(c) == [c EXCEPT !.CKey = chainKey_advance(c.CKey)]

\* chain.go lines 142-150
newReceiverChain(chain, ratchet) ==
    [RKey |-> ratchet, CKey |-> [Index |-> 0, Key |-> chain]]

\* chain.go lines 153-155
receiverChain_advance(c) == [c EXCEPT !.CKey = chainKey_advance(c.CKey)]

NewSenderChain ==
    /\ ~ratchetChains.hasSender
    /\ \E k \in Keys32, ratchet \in KeyPairs :
         ratchetChains' = [ratchetChains EXCEPT !.hasSender = TRUE,
                                  !.sender = newSenderChain(k, ratchet),
                                  !.senderKey = k, !.senderRatchet = ratchet]
    /\ UNCHANGED <<backupVars, pk, hicliVars>>

AdvanceSenderChain ==
    /\ ratchetChains.hasSender
    /\ ratchetChains.senderAdvances < MaxAdvances
    /\ ratchetChains' = [ratchetChains EXCEPT !.sender = senderChain_advance(@),
                                !.senderAdvances = @ + 1]
    /\ UNCHANGED <<backupVars, pk, hicliVars>>

NewReceiverChain ==
    /\ ~ratchetChains.hasReceiver
    /\ \E k \in Keys32, ratchet \in Keys32 :
         ratchetChains' = [ratchetChains EXCEPT !.hasReceiver = TRUE,
                                  !.receiver = newReceiverChain(k, ratchet),
                                  !.receiverKey = k, !.receiverRatchet = ratchet]
    /\ UNCHANGED <<backupVars, pk, hicliVars>>

AdvanceReceiverChain ==
    /\ ratchetChains.hasReceiver
    /\ ratchetChains.receiverAdvances < MaxAdvances
    /\ ratchetChains' = [ratchetChains EXCEPT !.receiver = receiverChain_advance(@),
                                !.receiverAdvances = @ + 1]
    /\ UNCHANGED <<backupVars, pk, hicliVars>>

NextChain ==
    \/ NewSenderChain
    \/ AdvanceSenderChain
    \/ NewReceiverChain
    \/ AdvanceReceiverChain

SpecChain == Init /\ [][NextChain]_vars

----------------------------------------------------------------------------
(* Claims about chain advancement (checked under SpecChain) *)

RECURSIVE Derived(_, _)
\* The n-fold derivation HMAC-SHA256(., 0x02) of the key k.
Derived(k, n) ==
    IF n = 0 THEN k ELSE << "HMACSHA256", Derived(k, n - 1), << 2 >> >>

\* C16: a new sender chain and a new receiver chain start at index 0 with the
\* given chain key (the sender chain marked set); after n advances the index
\* is n and the key is the n-fold HMAC-SHA256(key, 0x02) derivation of the
\* initial key; the ratchet key and the sender chain's IsSet flag are as
\* constructed.
C16_ChainAdvancement ==
    /\ ratchetChains.hasSender =>
         /\ ratchetChains.sender.CKey.Index = ratchetChains.senderAdvances
         /\ ratchetChains.sender.CKey.Key
              = Derived(ratchetChains.senderKey, ratchetChains.senderAdvances)
         /\ ratchetChains.sender.RKey = ratchetChains.senderRatchet
         /\ ratchetChains.sender.IsSet
    /\ ratchetChains.hasReceiver =>
         /\ ratchetChains.receiver.CKey.Index = ratchetChains.receiverAdvances
         /\ ratchetChains.receiver.CKey.Key
              = Derived(ratchetChains.receiverKey, ratchetChains.receiverAdvances)
         /\ ratchetChains.receiver.RKey = ratchetChains.receiverRatchet

\* A sender chain advanced three times next to a receiver chain advanced twice.
C16_Witness ==
    /\ ratchetChains.hasSender /\ ratchetChains.senderAdvances = 3
    /\ ratchetChains.sender.CKey.Index = 3
    /\ ratchetChains.hasReceiver /\ ratchetChains.receiverAdvances = 2
    /\ ratchetChains.receiver.CKey.Index = 2

----------------------------------------------------------------------------
(* The hicli JSON command "cancel" (hicli/hicli.go, handleJSONCommand) *)

\* Reasons a cancel command may carry ("": none given).
Reasons == { "", "timeout" }

\* The cause a cancel function is invoked with: nil for an empty reason,
\* errors.New(reason) otherwise (lines 239-243).
CauseOf(reason) == IF reason = "" THEN Nil ELSE << "error", reason >>

\* Line 236: the condition under which the handler returns false without
\* cancelling anything.
ReturnsWithoutCancel(ok) == ok

\* Lines 232-245, the function handed to unmarshalAndCall. requests: the
\* domain of h.jsonRequests; the cancelTarget of an unregistered ID is the nil
\* function, and calling it panics.
CancelRequest(requests, id, reason) ==
    LET ok == id \in requests
    IN  IF ReturnsWithoutCancel(ok)
          THEN [state |-> "returned", value |-> FALSE, invoked |-> {}]
        ELSE IF ~ok
          THEN [state |-> "panicked", value |-> FALSE, invoked |-> {}]
        ELSE [state |-> "returned", value |-> TRUE,
              invoked |-> { [id |-> id, cause |-> CauseOf(reason)] }]

\* A request is submitted and registers its cancel function.
RegisterRequest ==
    /\ jsonResult.state # "panicked"
    /\ \E id \in (1..MaxRequests) \ jsonRequests :
         jsonRequests' = jsonRequests \cup {id}
    /\ UNCHANGED <<backupVars, pk, ratchetChains, cancelInvoked, jsonResult,
                   syncVars>>

\* A request finishes and removes its cancel function.
UnregisterRequest ==
    /\ jsonResult.state # "panicked"
    /\ \E id \in jsonRequests : jsonRequests' = jsonRequests \ {id}
    /\ UNCHANGED <<backupVars, pk, ratchetChains, cancelInvoked, jsonResult,
                   syncVars>>

\* handleJSONCommand with req.Command = "cancel" (lines 231-245) through
\* unmarshalAndCall (lines 291-298): data that does not unmarshal returns the
\* error without calling the function.
CancelCommand ==
    /\ jsonResult.state # "panicked"
    /\ \E valid \in BOOLEAN, id \in 1..MaxRequests, reason \in Reasons :
         IF ~valid
           THEN /\ jsonResult' = [NoJSONResult EXCEPT !.state = "error",
                                     !.invokedBefore = cancelInvoked]
                /\ UNCHANGED cancelInvoked
         ELSE LET r == CancelRequest(jsonRequests, id, reason)
              IN  /\ cancelInvoked' = cancelInvoked \cup r.invoked
                  /\ jsonResult' =
                       [state |-> r.state, value |-> r.value, id |-> id,
                        reason |-> reason, registered |-> id \in jsonRequests,
                        invokedBefore |-> cancelInvoked]
    /\ UNCHANGED <<backupVars, pk, ratchetChains, jsonRequests, syncVars>>

NextCancel ==
    \/ RegisterRequest
    \/ UnregisterRequest
    \/ CancelCommand

SpecCancel == Init /\ [][NextCancel]_vars

\* C21: the "cancel" command invokes the cancel function of a registered
\* request ID (with the given reason, or nil for an empty one) and returns
\* true; for an unregistered request ID it invokes no cancel function, returns
\* false and does not crash.
C21_CancelRegisteredRequest ==
    jsonResult.state \in {"returned", "panicked"} =>
      /\ jsonResult.state = "returned"
      /\ jsonResult.registered =>
           /\ jsonResult.value = TRUE
           /\ [id |-> jsonResult.id, cause |-> CauseOf(jsonResult.reason)]
                \in cancelInvoked
      /\ ~jsonResult.registered =>
           /\ jsonResult.value = FALSE
           /\ cancelInvoked = jsonResult.invokedBefore

----------------------------------------------------------------------------
(* HiClient.Sync and HiClient.Stop (hicli/hicli.go), one step per statement *)

\* Client.StopSync: moves the client's syncing ID on, which makes a running
\* SyncWithContext return.
Client_StopSync(id) == id + 1

\* A mutex that lets every caller through.
LockFree_Always(l) == TRUE

\* h.syncLock.Lock() goes through only when nobody holds the mutex.
LockFree(l) == l = "free"

\* The cancel functions stored into h.stopSync so far (line 184), nil included.
StoredStopSyncs ==
    { NoCancelFunc } \cup
    { t \in SyncCalls : syncer[t].pc \in {"l186", "loop", "unlock", "done"} }

\* `fn := h.stopSync` (lines 172, 196) reads the field without holding
\* syncLock while line 184 writes it: the read yields the current value or a
\* value stored earlier.
StopSyncReads == { stopSync } \cup StoredStopSyncs

\* fn(): cancels the context the cancel function was made with.
CallCancel(fn) == IF fn = NoCancelFunc THEN cancelledCtx ELSE cancelledCtx \cup {fn}

\* SyncWithContext of call t is running.
InLoop(t) == syncer[t].pc = "loop"

\* What ends a running SyncWithContext: its context is cancelled, or the
\* client's syncing ID is no longer the one it started with.
LoopMustExit(t) ==
    \/ t \in cancelledCtx
    \/ clientSyncingID # syncer[t].loopID

\* A call of Sync is issued (by Start's `go h.Sync()` or by the embedder),
\* before Stop is called.
SyncCall(t) ==
    /\ syncer[t].pc = "idle"
    /\ stopper.pc = "idle"
    /\ syncer' = [syncer EXCEPT ![t].pc = "l171"]
    /\ UNCHANGED <<backupVars, pk, ratchetChains, jsonVars, stopper, syncLock,
                   syncingID, stopSync, cancelledCtx, clientSyncingID, db>>

\* Line 171: h.Client.StopSync()
Sync_StopClient(t) ==
    /\ syncer[t].pc = "l171"
    /\ clientSyncingID' = Client_StopSync(clientSyncingID)
    /\ syncer' = [syncer EXCEPT ![t].pc = "l172"]
    /\ UNCHANGED <<backupVars, pk, ratchetChains, jsonVars, stopper, syncLock,
                   syncingID, stopSync, cancelledCtx, db>>

\* Line 172: fn := h.stopSync
Sync_ReadStopSync(t) ==
    /\ syncer[t].pc = "l172"
    /\ \E fn \in StopSyncReads :
         syncer' = [syncer EXCEPT ![t].pc = "l173", ![t].fn = fn]
    /\ UNCHANGED <<backupVars, pk, ratchetChains, jsonVars, stopper, syncLock,
                   syncingID, stopSync, cancelledCtx, clientSyncingID, db>>

\* Lines 172-174: if fn != nil { fn() }
Sync_CancelPrevious(t) ==
    /\ syncer[t].pc = "l173"
    /\ cancelledCtx' = CallCancel(syncer[t].fn)
    /\ syncer' = [syncer EXCEPT ![t].pc = "l175"]
    /\ UNCHANGED <<backupVars, pk, ratchetChains, jsonVars, stopper, syncLock,
                   syncingID, stopSync, clientSyncingID, db>>

\* Line 175: h.syncLock.Lock()
Sync_Lock(t) ==
    /\ syncer[t].pc = "l175"
    /\ LockFree(syncLock)
    /\ syncLock' = "sync"
    /\ syncer' = [syncer EXCEPT ![t].pc = "l177"]
    /\ UNCHANGED <<backupVars, pk, ratchetChains, jsonVars, stopper,
                   syncingID, stopSync, cancelledCtx, clientSyncingID, db>>

\* Lines 177-178: h.syncingID++; syncingID := h.syncingID
Sync_NextID(t) ==
    /\ syncer[t].pc = "l177"
    /\ syncingID' = syncingID + 1
    /\ syncer' = [syncer EXCEPT ![t].pc = "l183", ![t].syncingID = syncingID + 1]
    /\ UNCHANGED <<backupVars, pk, ratchetChains, jsonVars, stopper, syncLock,
                   stopSync, cancelledCtx, clientSyncingID, db>>

\* Lines 183-184: ctx, cancel := context.WithCancel(...); h.stopSync = cancel
Sync_StoreStopSync(t) ==
    /\ syncer[t].pc = "l183"
    /\ stopSync' = t
    /\ syncer' = [syncer EXCEPT ![t].pc = "l186"]
    /\ UNCHANGED <<backupVars, pk, ratchetChains, jsonVars, stopper, syncLock,
                   syncingID, cancelledCtx, clientSyncingID, db>>

\* Line 186: h.Client.SyncWithContext(ctx) starts; it takes the next client
\* syncing ID as its own.
Sync_EnterLoop(t) ==
    /\ syncer[t].pc = "l186"
    /\ clientSyncingID' = clientSyncingID + 1
    /\ syncer' = [syncer EXCEPT
                    ![t].pc = "loop",
                    ![t].loopID = clientSyncingID + 1,
                    ![t].loopSeq =
                       1 + Cardinality({ u \in SyncCalls : syncer[u].loopSeq > 0 })]
    /\ UNCHANGED <<backupVars, pk, ratchetChains, jsonVars, stopper, syncLock,
                   syncingID, stopSync, cancelledCtx, db>>

\* Line 186: SyncWithContext returns because it was stopped or cancelled
\* (lines 187-191 only log).
SyncLoopExits(t) ==
    /\ InLoop(t)
    /\ LoopMustExit(t)
    /\ syncer' = [syncer EXCEPT ![t].pc = "unlock"]
    /\ UNCHANGED <<backupVars, pk, ratchetChains, jsonVars, stopper, syncLock,
                   syncingID, stopSync, cancelledCtx, clientSyncingID, db>>

\* Line 186: SyncWithContext returns an error of its own (line 189 logs it).
SyncLoopFails(t) ==
    /\ InLoop(t)
    /\ ~LoopMustExit(t)
    /\ syncer' = [syncer EXCEPT ![t].pc = "unlock"]
    /\ UNCHANGED <<backupVars, pk, ratchetChains, jsonVars, stopper, syncLock,
                   syncingID, stopSync, cancelledCtx, clientSyncingID, db>>

\* Line 176: the deferred h.syncLock.Unlock(); Sync returns.
Sync_Unlock(t) ==
    /\ syncer[t].pc = "unlock"
    /\ syncLock' = "free"
    /\ syncer' = [syncer EXCEPT ![t].pc = "done"]
    /\ UNCHANGED <<backupVars, pk, ratchetChains, jsonVars, stopper,
                   syncingID, stopSync, cancelledCtx, clientSyncingID, db>>

\* Stop is called.
StopCall ==
    /\ stopper.pc = "idle"
    /\ stopper' = [stopper EXCEPT !.pc = "l195"]
    /\ UNCHANGED <<backupVars, pk, ratchetChains, jsonVars, syncer, syncLock,
                   syncingID, stopSync, cancelledCtx, clientSyncingID, db>>

\* Line 195: h.Client.StopSync()
Stop_StopClient ==
    /\ stopper.pc = "l195"
    /\ clientSyncingID' = Client_StopSync(clientSyncingID)
    /\ stopper' = [stopper EXCEPT !.pc = "l196"]
    /\ UNCHANGED <<backupVars, pk, ratchetChains, jsonVars, syncer, syncLock,
                   syncingID, stopSync, cancelledCtx, db>>

\* Line 196: fn := h.stopSync
Stop_ReadStopSync ==
    /\ stopper.pc = "l196"
    /\ \E fn \in StopSyncReads :
         stopper' = [pc |-> "l197", fn |-> fn]
    /\ UNCHANGED <<backupVars, pk, ratchetChains, jsonVars, syncer, syncLock,
                   syncingID, stopSync, cancelledCtx, clientSyncingID, db>>

\* Lines 196-198: if fn != nil { fn() }
Stop_Cancel ==
    /\ stopper.pc = "l197"
    /\ cancelledCtx' = CallCancel(stopper.fn)
    /\ stopper' = [stopper EXCEPT !.pc = "l199"]
    /\ UNCHANGED <<backupVars, pk, ratchetChains, jsonVars, syncer, syncLock,
                   syncingID, stopSync, clientSyncingID, db>>

\* Line 199: h.syncLock.Lock()
Stop_Lock ==
    /\ stopper.pc = "l199"
    /\ LockFree(syncLock)
    /\ syncLock' = "stop"
    /\ stopper' = [stopper EXCEPT !.pc = "l200"]
    /\ UNCHANGED <<backupVars, pk, ratchetChains, jsonVars, syncer,
                   syncingID, stopSync, cancelledCtx, clientSyncingID, db>>

\* Line 200: h.syncLock.Unlock()
Stop_Unlock ==
    /\ stopper.pc = "l200"
    /\ syncLock' = "free"
    /\ stopper' = [stopper EXCEPT !.pc = "l201"]
    /\ UNCHANGED <<backupVars, pk, ratchetChains, jsonVars, syncer,
                   syncingID, stopSync, cancelledCtx, clientSyncingID, db>>

\* Lines 201-204: h.DB.Close() (the error is only logged); Stop returns.
Stop_CloseDB ==
    /\ stopper.pc = "l201"
    /\ db' = [closed |-> TRUE, loopAtClose |-> \E t \in SyncCalls : InLoop(t)]
    /\ stopper' = [stopper EXCEPT !.pc = "done"]
    /\ UNCHANGED <<backupVars, pk, ratchetChains, jsonVars, syncer, syncLock,
                   syncingID, stopSync, cancelledCtx, clientSyncingID>>

\* The steps a started Sync call takes by itself, the lock apart.
SyncStep(t) ==
    \/ Sync_StopClient(t)
    \/ Sync_ReadStopSync(t)
    \/ Sync_CancelPrevious(t)
    \/ Sync_NextID(t)
    \/ Sync_StoreStopSync(t)
    \/ Sync_EnterLoop(t)
    \/ SyncLoopExits(t)
    \/ Sync_Unlock(t)

\* The steps a started Stop call takes by itself, the lock apart.
StopStep ==
    \/ Stop_StopClient
    \/ Stop_ReadStopSync
    \/ Stop_Cancel
    \/ Stop_Unlock
    \/ Stop_CloseDB

NextSync ==
    \/ \E t \in SyncCalls : SyncCall(t)
    \/ \E t \in SyncCalls : SyncStep(t)
    \/ \E t \in SyncCalls : Sync_Lock(t)
    \/ \E t \in SyncCalls : SyncLoopFails(t)
    \/ StopCall
    \/ StopStep
    \/ Stop_Lock

SpecSync == Init /\ [][NextSync]_vars

\* Every goroutine that can take a step eventually takes it, and a goroutine
\* waiting for the mutex gets it if the mutex is free again and again. Nothing
\* makes a caller call, or a healthy sync loop fail.
SpecSyncFair ==
    /\ SpecSync
    /\ \A t \in SyncCalls : WF_vars(SyncStep(t)) /\ SF_vars(Sync_Lock(t))
    /\ WF_vars(StopStep)
    /\ SF_vars(Stop_Lock)

\* The Sync calls that have entered SyncWithContext.
EnteredLoop == { t \in SyncCalls : syncer[t].loopSeq > 0 }

\* The Sync calls that stored their cancel function and are about to enter
\* SyncWithContext (between lines 184 and 186, holding syncLock).
StartingLoop == { t \in SyncCalls : syncer[t].pc = "l186" }

\* C22: under any interleaving of concurrent Sync calls, at most one call is
\* inside SyncWithContext; the loops run with distinct sync IDs that increase
\* strictly in the order the loops start; and h.stopSync is the cancel function
\* of the running loop, or with no loop running that of the loop that ran most
\* recently (nil before any loop), or that of the call which holds syncLock
\* and is entering its loop.
C22_OneSyncLoopAtATime ==
    /\ Cardinality({ t \in SyncCalls : InLoop(t) }) <= 1
    /\ \A t, u \in EnteredLoop :
         /\ t # u => syncer[t].syncingID # syncer[u].syncingID
         /\ syncer[t].loopSeq < syncer[u].loopSeq
              => syncer[t].syncingID < syncer[u].syncingID
    /\ \A t \in SyncCalls : InLoop(t) => stopSync = t
    /\ IF StartingLoop # {}
         THEN stopSync \in StartingLoop
       ELSE IF EnteredLoop = {}
         THEN stopSync = NoCancelFunc
       ELSE \A u \in EnteredLoop : syncer[u].loopSeq <= syncer[stopSync].loopSeq

\* A second loop runs after the first ended, while Stop is under way.
C22_Witness ==
    \E t, u \in SyncCalls :
      /\ InLoop(t)
      /\ syncer[t].syncingID = 2
      /\ syncer[u].pc = "done"
      /\ syncer[u].syncingID = 1
      /\ stopSync = t
      /\ stopper.pc = "l199"

\* C23: with Sync calls issued before Stop, the database is closed only while
\* no sync loop is running, and no sync loop is running once Stop has
\* returned.
C23_StopShutsSyncingDown ==
    /\ db.closed => ~db.loopAtClose
    /\ stopper.pc = "done" => \A t \in SyncCalls : ~InLoop(t)

\* C24: under fair scheduling, with sync loops that exit once cancelled or
\* stopped, every call of Stop returns.
C24_StopTerminates == (stopper.pc # "idle") ~> (stopper.pc = "done")

====
